---- MODULE Spec2Model ----
(***************************************************************************)
(* Passing-network construction and metrics of Football_PassNets:          *)
(* get_passing_data, node_strength and distance_centralities of            *)
(* src/src/net_analysis.py, with the networkx / pandas calls they make     *)
(* modelled by what those calls compute; and phase_of_play of              *)
(* src/src/load_data.py, which turns a team's substitution events into the *)
(* bounds of the phases of play.                                           *)
(*                                                                         *)
(* Numbers.  Python floats are modelled by exact integers:                 *)
(*   - Intensity and the strengths are pass counts;                        *)
(*   - Distance, the harmonic values and betweenness are held in units of  *)
(*     1/Dec4 (four decimals), Avg Pos in units of 1/Dec2 (two decimals).  *)
(* Every Distance the code produces is a whole number (for a few           *)
(* intensities, 6 the smallest, the float product is one ulp away from     *)
(* it); the model keeps the whole number, so path lengths are exact.       *)
(* Rounding a value that sits exactly on a decimal tie depends on the      *)
(* binary representation of the float; for the centralities both           *)
(* neighbours are kept as possible outcomes (RoundCandidates).             *)
(***************************************************************************)
EXTENDS Integers, Sequences, FiniteSets, TLC

VARIABLES
    events,     \* rows of event_data that pass the filter of line 14-15 (raw names)
    pc,         \* "start" | "built" | "failed"
    pass_data,  \* the returned pass_data frame (surnames), line 15-18
    nodes,      \* G.nodes(), in insertion order
    edges,      \* G.edges(keys=True, data=True), in insertion order
    attrs,      \* G.nodes[n]: node -> (attribute name -> value)
    err,        \* the exception that ended the run, or "none"
    calls,      \* the number of metric calls made on G so far
    subs_id,    \* phase_of_play: the "index" of the team's substitution events
    idx_bound,  \* phase_of_play: the returned list
    phase_pc    \* phase_of_play: "idle" | "call" | "returned"

graphVars == <<events, pc, pass_data, nodes, edges, attrs, err, calls>>

phaseVars == <<subs_id, idx_bound, phase_pc>>

vars == <<events, pc, pass_data, nodes, edges, attrs, err, calls, subs_id, idx_bound, phase_pc>>

-----------------------------------------------------------------------------
(* Bounds and program constants *)

\* the longest event frame taken in every order of its rows
MaxEvents == 4

\* the largest event index a substitution may have
MaxIndex == 7

\* the longest event frame taken with equal passes next to each other
MaxPasses == 6

\* the longest event frame whose passes start and end at freely chosen points
MaxPosEvents == 3

\* the longest event frame on which the effect of the calls themselves is checked
MaxCallEvents == 3

\* the most metric calls made on one graph
MaxCalls == 2

Dec4 == 10000

Dec2 == 100

DistScale == 10000

-----------------------------------------------------------------------------
(* Generic helpers *)

Range(s) == {s[i] : i \in 1..Len(s)}

SeqsUpTo(S, n) == UNION {[1..k -> S] : k \in 0..n}

Min(S) == CHOOSE a \in S : \A b \in S : a <= b

Max(S) == CHOOSE a \in S : \A b \in S : a >= b

RECURSIVE GCD(_, _)
GCD(a, b) == IF b = 0 THEN a ELSE GCD(b, a % b)

RECURSIVE SumOver(_, _)
\* sum of f[a] over the finite set S
SumOver(f, S) ==
    IF S = {} THEN 0
    ELSE LET a == CHOOSE b \in S : TRUE IN f[a] + SumOver(f, S \ {a})

RECURSIVE TabulateOn(_, _)
TabulateOn(f, S) ==
    IF S = {} THEN <<>>
    ELSE LET a == CHOOSE b \in S : TRUE IN (a :> f[a]) @@ TabulateOn(f, S \ {a})

\* the function f with every value computed once (the same function, as a table)
Tabulate(f) == TabulateOn(f, DOMAIN f)

\* exact rationals <<numerator, denominator>>, kept in lowest terms
Rat(n, d) == LET g == GCD(n, d) IN IF n = 0 THEN <<0, 1>> ELSE <<n \div g, d \div g>>

RatAdd(p, q) == Rat(p[1] * q[2] + q[1] * p[2], p[2] * q[2])

RECURSIVE RatSum(_, _)
RatSum(f, S) ==
    IF S = {} THEN <<0, 1>>
    ELSE LET a == CHOOSE b \in S : TRUE IN RatAdd(f[a], RatSum(f, S \ {a}))

\* n/d rounded to the nearest integer, an exact tie going to the even one
\* (Python's round() and numpy's round on an exactly representable value)
RoundHalfEven(n, d) ==
    LET q == n \div d
        r == n % d
    IN  IF 2 * r < d THEN q
        ELSE IF 2 * r > d THEN q + 1
        ELSE IF q % 2 = 0 THEN q ELSE q + 1

\* the integers round() can return for the float nearest to n/d: the nearest
\* integer, or either neighbour when n/d is exactly halfway (the float is then
\* a hair above or below the tie)
RoundCandidates(n, d) ==
    LET q == n \div d
        r == n % d
    IN  IF 2 * r < d THEN {q}
        ELSE IF 2 * r > d THEN {q + 1}
        ELSE {q, q + 1}

-----------------------------------------------------------------------------
(* The input: filtered pass events of one team *)

\* two small squads; the second has two players who share a surname
SquadA == { <<"Kevin", "De", "Bruyne">>, <<"Ruben", "Dias">>, <<"Bernardo", "Silva">> }

SquadB == { <<"Bernardo", "Silva">>, <<"David", "Silva">>, <<"Ruben", "Dias">> }

Squads == {SquadA, SquadB}

\* where a player stands when passing or receiving (pitch units)
Spot(p) ==
    CASE p = <<"Kevin", "De", "Bruyne">> -> <<70, 40>>
      [] p = <<"Ruben", "Dias">>         -> <<30, 35>>
      [] p = <<"Bernardo", "Silva">>     -> <<85, 20>>
      [] p = <<"David", "Silva">>        -> <<80, 55>>

PassEvent(p, q) ==
    [player_name |-> p, pass_recipient_name |-> q,
     x |-> Spot(p)[1], y |-> Spot(p)[2], end_x |-> Spot(q)[1], end_y |-> Spot(q)[2]]

SquadEvents(squad) == {PassEvent(p, q) : <<p, q>> \in {pq \in squad \X squad : pq[1] # pq[2]}}

RECURSIVE Repeat(_, _)
Repeat(e, n) == IF n = 0 THEN <<>> ELSE <<e>> \o Repeat(e, n - 1)

\* every frame of at most n events of one squad, in every order
FramesAnyOrder(n) == UNION {SeqsUpTo(SquadEvents(sq), n) : sq \in Squads}

RECURSIVE Grouped(_, _)
\* every multiset of at most n events of S as one frame, equal events adjacent
Grouped(S, n) ==
    IF S = {} THEN {<<>>}
    ELSE LET e == CHOOSE x \in S : TRUE
         IN  UNION {{Repeat(e, k) \o rest : rest \in Grouped(S \ {e}, n - k)} : k \in 0..n}

FramesGrouped(n) == UNION {Grouped(SquadEvents(sq), n) : sq \in Squads}

\* where a pass may start and end (pitch units): up the pitch, back, or on the
\* spot, so that the same player passes and receives at different places
Moves == { <<<<10, 40>>, <<35, 8>>>>, <<<<35, 8>>, <<10, 40>>>>, <<<<10, 40>>, <<10, 40>>>> }

PassEventAt(p, q, from, to) ==
    [player_name |-> p, pass_recipient_name |-> q,
     x |-> from[1], y |-> from[2], end_x |-> to[1], end_y |-> to[2]]

SquadEventsAt(squad) ==
    {PassEventAt(pq[1], pq[2], ft[1], ft[2]) :
        pq \in {pq \in squad \X squad : pq[1] # pq[2]}, ft \in Moves}

FramesAt(n) == UNION {Grouped(SquadEventsAt(sq), n) : sq \in Squads}

-----------------------------------------------------------------------------
(* get_passing_data *)

\* str(x).split()[-1]
Surname(name) == name[Len(name)]

\* lines 15-18: the filtered frame with both name columns cut to the surname
PassData(ev) ==
    [i \in 1..Len(ev) |->
        [player_name |-> Surname(ev[i].player_name),
         pass_recipient_name |-> Surname(ev[i].pass_recipient_name),
         x |-> ev[i].x, y |-> ev[i].y, end_x |-> ev[i].end_x, end_y |-> ev[i].end_y]]

\* Python's order on the surnames that occur (groupby sorts its keys)
Alphabetical == <<"Bruyne", "Dias", "Silva">>

StrRank(s) == CHOOSE i \in 1..Len(Alphabetical) : Alphabetical[i] = s

KeyLess(a, b) ==
    \/ StrRank(a[1]) < StrRank(b[1])
    \/ a[1] = b[1] /\ StrRank(a[2]) < StrRank(b[2])

RECURSIVE SortKeys(_)
SortKeys(S) ==
    IF S = {} THEN <<>>
    ELSE LET m == CHOOSE a \in S : \A b \in S \ {a} : KeyLess(a, b)
         IN  <<m>> \o SortKeys(S \ {m})

\* groupby(["player_name", "pass_recipient_name"]): the keys that occur
GroupKeys(pd) == {<<pd[i].player_name, pd[i].pass_recipient_name>> : i \in 1..Len(pd)}

\* .size(): the number of rows of one group
GroupSize(pd, k) ==
    Cardinality({i \in 1..Len(pd) : pd[i].player_name = k[1] /\ pd[i].pass_recipient_name = k[2]})

\* the edge list without the groupby: one row per event
PassNetEdgelistUngrouped(pd) ==
    [i \in 1..Len(pd) |->
        [Passer |-> pd[i].player_name, Receiver |-> pd[i].pass_recipient_name, Intensity |-> 1]]

\* lines 20-25: one row per group, in key order
PassNetEdgelist(pd) ==
    LET keys == SortKeys(GroupKeys(pd))
    IN  [i \in 1..Len(keys) |->
            [Passer |-> keys[i][1], Receiver |-> keys[i][2], Intensity |-> GroupSize(pd, keys[i])]]

AddNode(ns, n) == IF n \in Range(ns) THEN ns ELSE Append(ns, n)

RECURSIVE NodesFromPassers(_, _)
\* the node list with only the source of every edge added
NodesFromPassers(el, k) ==
    IF k = 0 THEN <<>> ELSE AddNode(NodesFromPassers(el, k - 1), el[k].Passer)

RECURSIVE NodesFrom(_, _)
\* add_edge(s, t) adds s and then t to the node dict when new
NodesFrom(el, k) ==
    IF k = 0 THEN <<>>
    ELSE AddNode(AddNode(NodesFrom(el, k - 1), el[k].Passer), el[k].Receiver)

\* MultiDiGraph.add_edge: the key of a new edge is the number of edges already
\* there between the same two nodes
EdgeKey(el, i) ==
    Cardinality({j \in 1..(i - 1) : el[j].Passer = el[i].Passer /\ el[j].Receiver = el[i].Receiver})

\* the distance scaled first and rounded last: round(10000 / values, 4)
DistanceRoundedLast(intensity) == RoundHalfEven(DistScale * Dec4, intensity)

\* line 56: round(1 / values, 4) * 10000, in units of 1/Dec4
DistanceOf(intensity) == RoundHalfEven(Dec4, intensity) * DistScale

\* lines 28-34 and 54-58: one edge per row of the edge list, with both attributes
EdgesFrom(el) ==
    [i \in 1..Len(el) |->
        [u |-> el[i].Passer, v |-> el[i].Receiver, key |-> EdgeKey(el, i),
         Intensity |-> el[i].Intensity, Distance |-> DistanceOf(el[i].Intensity)]]

\* lines 40-43: the coordinates that contribute to a player's position
PlayerXs(pd, player) ==
    [i \in {j \in 1..Len(pd) : pd[j].player_name = player} |-> pd[i].x]

\* the receiving side read from the origin column
PlayerEndXsFromOrigin(pd, player) ==
    [i \in {j \in 1..Len(pd) : pd[j].pass_recipient_name = player} |-> pd[i].x]

PlayerEndXs(pd, player) ==
    [i \in {j \in 1..Len(pd) : pd[j].pass_recipient_name = player} |-> pd[i].end_x]

PlayerYs(pd, player) ==
    [i \in {j \in 1..Len(pd) : pd[j].player_name = player} |-> pd[i].y]

PlayerEndYs(pd, player) ==
    [i \in {j \in 1..Len(pd) : pd[j].pass_recipient_name = player} |-> pd[i].end_y]

\* np.round(np.mean(np.concatenate([a, b])), 2), in units of 1/Dec2
RoundedMean(a, b) ==
    LET n == Cardinality(DOMAIN a) + Cardinality(DOMAIN b)
        s == SumOver(a, DOMAIN a) + SumOver(b, DOMAIN b)
    IN  RoundHalfEven(Dec2 * s, n)

\* lines 45-48
AvgPos(pd, player) ==
    <<RoundedMean(PlayerXs(pd, player), PlayerEndXs(pd, player)),
      RoundedMean(PlayerYs(pd, player), PlayerEndYs(pd, player))>>

\* a one-entry attribute dict
OneAttr(name, value) == [a \in {name} |-> value]

GetPassingData ==
    /\ pc = "start"
    /\ LET pd == PassData(events)
           el == PassNetEdgelist(pd)
           ns == NodesFrom(el, Len(el))
       IN  /\ pass_data' = pd
           /\ nodes' = ns
           /\ edges' = EdgesFrom(el)
           /\ attrs' = [n \in Range(ns) |-> OneAttr("Avg Pos", AvgPos(pd, n))]
    /\ pc' = "built"
    /\ UNCHANGED <<events, err, calls>>
    /\ UNCHANGED phaseVars

-----------------------------------------------------------------------------
(* What both metric functions use of networkx *)

\* nx.set_node_attributes(G, values, name): G.nodes[n][name] = values[n]
\* for every n of values; the other keys of G.nodes[n] stay
SetNodeAttributes(at, values, name) ==
    [n \in DOMAIN at |->
        IF n \in DOMAIN values
        THEN [a \in DOMAIN at[n] \cup {name} |-> IF a = name THEN values[n] ELSE at[n][a]]
        ELSE at[n]]

\* the edges from u to v (a MultiDiGraph may hold several)
EdgesBetween(es, u, v) == {m \in 1..Len(es) : es[m].u = u /\ es[m].v = v}

\* the adjacency matrix without the weights: 1 where an edge is
AdjMatrixUnweighted(ns, es, weight) ==
    [i \in 1..Len(ns) |-> [j \in 1..Len(ns) |->
        IF EdgesBetween(es, ns[i], ns[j]) # {} THEN 1 ELSE 0]]

\* nx.to_numpy_array(G, weight = weight): entry [i][j] is the sum of the weight
\* of every edge from the i-th to the j-th node of G.nodes(), 0 without an edge
AdjMatrix(ns, es, weight) ==
    [i \in 1..Len(ns) |-> [j \in 1..Len(ns) |->
        LET between == EdgesBetween(es, ns[i], ns[j])
        IN  SumOver([m \in between |-> es[m][weight]], between)]]

-----------------------------------------------------------------------------
(* node_strength *)

\* sum(adj_matrix[:, idx])
ColumnSum(A, idx) == SumOver([i \in 1..Len(A) |-> A[i][idx]], 1..Len(A))

\* sum(adj_matrix[idx])
RowSum(A, idx) == SumOver(A[idx], 1..Len(A))

\* rows and columns taken the wrong way round
StrengthValueSwapped(A, idx, direction) ==
    IF direction = "in" THEN RowSum(A, idx)
    ELSE IF direction = "out" THEN ColumnSum(A, idx)
    ELSE ColumnSum(A, idx) + RowSum(A, idx)

\* lines 82-90: the value of one node
StrengthValue(A, idx, direction) ==
    IF direction = "in" THEN ColumnSum(A, idx)
    ELSE IF direction = "out" THEN RowSum(A, idx)
    ELSE ColumnSum(A, idx) + RowSum(A, idx)

\* lines 82-90: the attribute name the loop leaves in `name`
StrengthName(direction) ==
    IF direction = "in" THEN "In-Strength"
    ELSE IF direction = "out" THEN "Out-Strength"
    ELSE "Strength"

\* lines 76-90: strength_values after the loop
StrengthValues(ns, es, direction, weight) ==
    LET A == Tabulate(AdjMatrix(ns, es, weight))
    IN  [n \in Range(ns) |->
            StrengthValue(A, CHOOSE idx \in 1..Len(ns) : ns[idx] = n, direction)]

\* the directions a caller may pass: "None" stands for Python's None, "both"
\* for any value outside the documented three
Directions == {"in", "out", "None", "both"}

NodeStrength(direction, weight) ==
    /\ pc = "built"
    /\ calls < MaxCalls
    /\ calls' = calls + 1
    /\ IF nodes = <<>>
       THEN \* the loop body never runs, so line 93 reads `name` unassigned
            /\ pc' = "failed"
            /\ err' = "UnboundLocalError: name"
            /\ UNCHANGED attrs
       ELSE /\ attrs' = SetNodeAttributes(attrs, StrengthValues(nodes, edges, direction, weight),
                                          StrengthName(direction))
            /\ UNCHANGED <<pc, err>>
    /\ UNCHANGED <<events, pass_data, nodes, edges>>
    /\ UNCHANGED phaseVars

-----------------------------------------------------------------------------
(* distance_centralities *)

\* the weight networkx gives a step from u to a neighbour v of a multigraph:
\* the smallest weight among the parallel edges
StepWeight(es, weight, u, v) == Min({es[m][weight] : m \in EdgesBetween(es, u, v)})

RECURSIVE Reach(_, _, _, _, _)
\* {the length of the shortest walk from s to t with at most k edges}, or {};
\* a shortest path visits no node twice, so k = Len(ns) - 1 edges are enough
Reach(es, weight, s, t, k) ==
    IF k = 0 THEN (IF s = t THEN {0} ELSE {})
    ELSE LET into == {m \in 1..Len(es) : es[m].v = t}
             via  == UNION {{l + es[m][weight] : l \in Reach(es, weight, s, es[m].u, k - 1)} : m \in into}
             all  == Reach(es, weight, s, t, k - 1) \cup via
         IN  IF all = {} THEN {} ELSE {Min(all)}

\* nx.shortest_path_length(G, source, weight = weight): the nodes reachable
\* from source, each with its distance (source itself at 0)
ShortestPathLength(ns, es, source, weight) ==
    [t \in {n \in Range(ns) : Reach(es, weight, source, n, Len(ns) - 1) # {}} |->
        Min(Reach(es, weight, source, t, Len(ns) - 1))]

\* the distance dict of every source
AllPairs(ns, es, weight) ==
    Tabulate([s \in Range(ns) |-> Tabulate(ShortestPathLength(ns, es, s, weight))])

\* nx.harmonic_centrality(G, distance = distance): for every node u the sum of
\* 1/d(v, u) over the sources v that reach u with d > 0.  d is in units of
\* 1/Dec4, so 1/d is Dec4/d; the result is an exact rational
HarmonicCentrality(ns, es, distance) ==
    LET D == AllPairs(ns, es, distance)
    IN  [u \in Range(ns) |->
            LET from == {v \in Range(ns) : u \in DOMAIN D[v] /\ D[v][u] # 0}
            IN  RatSum([v \in from |-> Rat(Dec4, D[v][u])], from)]

\* a copy that is not reversed
ReverseNot(es) == es

\* G.reverse(copy = True): a new graph, every edge turned round, data kept
Reverse(es) ==
    [m \in 1..Len(es) |-> [es[m] EXCEPT !.u = es[m].v, !.v = es[m].u]]

RECURSIVE Sigma(_, _, _, _, _)
\* the number of shortest paths from s to t (t reachable from s), counted as
\* Brandes' Dijkstra does: one per predecessor neighbour on a shortest path
Sigma(D, es, weight, s, t) ==
    IF s = t THEN 1
    ELSE LET preds == {u \in DOMAIN D[s] : /\ u # t
                                           /\ EdgesBetween(es, u, t) # {}
                                           /\ D[s][u] + StepWeight(es, weight, u, t) = D[s][t]}
         IN  SumOver([u \in preds |-> Sigma(D, es, weight, s, u)], preds)

\* the share of the shortest s-t paths that pass through v
PairDependency(D, es, weight, s, t, v) ==
    IF t \in DOMAIN D[s] /\ v \in DOMAIN D[s] /\ t \in DOMAIN D[v] /\ D[s][v] + D[v][t] = D[s][t]
    THEN Rat(Sigma(D, es, weight, s, v) * Sigma(D, es, weight, v, t), Sigma(D, es, weight, s, t))
    ELSE <<0, 1>>

\* no rescaling: the raw number of shortest paths through the node
BetweennessUnscaled(n) == 1

\* _rescale(..., normalized = True): 1/((n-1)(n-2)), nothing for n <= 2
BetweennessScale(n) == IF n <= 2 THEN 1 ELSE (n - 1) * (n - 2)

\* nx.betweenness_centrality(G, normalized = True, weight = weight)
BetweennessCentrality(ns, es, weight) ==
    LET D == AllPairs(ns, es, weight)
    IN  [v \in Range(ns) |->
            LET pairs == {st \in Range(ns) \X Range(ns) : st[1] # st[2] /\ st[1] # v /\ st[2] # v}
                total == RatSum([st \in pairs |-> PairDependency(D, es, weight, st[1], st[2], v)], pairs)
            IN  Rat(total[1], total[2] * BetweennessScale(Len(ns)))]

Centralities == {"Betweenness", "In-Harmonic", "Out-Harmonic"}

\* lines 107-113
CentralityDict(ns, es, centrality_name, distance_attribute) ==
    Tabulate(
    CASE centrality_name = "Betweenness"  -> BetweennessCentrality(ns, es, distance_attribute)
      [] centrality_name = "In-Harmonic"  -> HarmonicCentrality(ns, es, distance_attribute)
      [] centrality_name = "Out-Harmonic" -> HarmonicCentrality(ns, Reverse(es), distance_attribute))

\* lines 116-117: every value rounded to four decimals (units of 1/Dec4)
RoundedDicts(dict) ==
    LET cand == Tabulate([n \in DOMAIN dict |-> RoundCandidates(dict[n][1] * Dec4, dict[n][2])])
    IN  {f \in [DOMAIN dict -> UNION {cand[n] : n \in DOMAIN dict}] :
            \A n \in DOMAIN dict : f[n] \in cand[n]}

\* the names a caller may pass: "unknown" stands for any other string
CentralityNames == Centralities \cup {"unknown"}

\* an unknown name falling back to betweenness instead of failing
DistanceCentralitiesDefaulting(centrality_name, distance_attribute) ==
    /\ pc = "built"
    /\ calls < MaxCalls
    /\ calls' = calls + 1
    /\ LET known == IF centrality_name \in Centralities THEN centrality_name ELSE "Betweenness"
       IN  \E rounded \in RoundedDicts(CentralityDict(nodes, edges, known, distance_attribute)) :
               attrs' = SetNodeAttributes(attrs, rounded, centrality_name)
    /\ UNCHANGED <<pc, err, events, pass_data, nodes, edges>>
    /\ UNCHANGED phaseVars

\* Out-Harmonic reversing G itself instead of a copy
DistanceCentralitiesInPlace(centrality_name, distance_attribute) ==
    /\ pc = "built"
    /\ calls < MaxCalls
    /\ calls' = calls + 1
    /\ IF centrality_name \notin Centralities
       THEN /\ pc' = "failed"
            /\ err' = "UnboundLocalError: centrality_dict"
            /\ UNCHANGED <<attrs, edges>>
       ELSE /\ \E rounded \in RoundedDicts(CentralityDict(nodes, edges, centrality_name, distance_attribute)) :
                  attrs' = SetNodeAttributes(attrs, rounded, centrality_name)
            /\ edges' = IF centrality_name = "Out-Harmonic" THEN Reverse(edges) ELSE edges
            /\ UNCHANGED <<pc, err>>
    /\ UNCHANGED <<events, pass_data, nodes>>
    /\ UNCHANGED phaseVars

DistanceCentralities(centrality_name, distance_attribute) ==
    /\ pc = "built"
    /\ calls < MaxCalls
    /\ calls' = calls + 1
    /\ IF centrality_name \notin Centralities
       THEN \* no branch assigns centrality_dict, so line 116 reads it unassigned
            /\ pc' = "failed"
            /\ err' = "UnboundLocalError: centrality_dict"
            /\ UNCHANGED attrs
       ELSE /\ \E rounded \in RoundedDicts(CentralityDict(nodes, edges, centrality_name, distance_attribute)) :
                  attrs' = SetNodeAttributes(attrs, rounded, centrality_name)
            /\ UNCHANGED <<pc, err>>
    /\ UNCHANGED <<events, pass_data, nodes, edges>>
    /\ UNCHANGED phaseVars

-----------------------------------------------------------------------------
(* phase_of_play (src/src/load_data.py) *)

RECURSIVE Ascending(_)
\* the members of a set of indices in rising order: the event frame is in
\* index order, so the filter of line 109 yields them so
Ascending(S) ==
    IF S = {} THEN <<>> ELSE Append(Ascending(S \ {Max(S)}), Max(S))

\* every value line 109 may give: the indices of any of the events 1..n
SubsIds(n) == {Ascending(S) : S \in SUBSET (1..n)}

\* the first index of the group instead of its largest
GroupFirst(current_idx_group) == current_idx_group[1]

\* max(current_idx_group), lines 122 and 125
GroupBound(current_idx_group) == Max(Range(current_idx_group))

RECURSIVE PhaseLoop(_, _)
\* lines 115-123: idx_bound and current_idx_group once the loop has looked at
\* the first k indices (k = 1 is the state before the first iteration; the
\* k-th index is subs_id[_] of iteration _ = k - 1)
PhaseLoop(ids, k) ==
    IF k = 1 THEN [idx_bound |-> <<>>, current_idx_group |-> <<ids[1]>>]
    ELSE LET before == PhaseLoop(ids, k - 1)
         IN  IF ids[k] = ids[k - 1] + 1
             THEN [before EXCEPT !.current_idx_group = Append(@, ids[k])]
             ELSE [idx_bound |-> Append(before.idx_bound, GroupBound(before.current_idx_group)),
                   current_idx_group |-> <<ids[k]>>]

\* lines 111-127
PhaseOfPlay(ids) ==
    IF Len(ids) = 0 THEN <<>>
    ELSE LET last == PhaseLoop(ids, Len(ids))
         IN  Append(last.idx_bound, GroupBound(last.current_idx_group))

CallPhaseOfPlay ==
    /\ phase_pc = "call"
    /\ idx_bound' = PhaseOfPlay(subs_id)
    /\ phase_pc' = "returned"
    /\ UNCHANGED subs_id
    /\ UNCHANGED graphVars

-----------------------------------------------------------------------------

InitWith(frames) ==
    /\ events \in frames
    /\ pc = "start"
    /\ pass_data = <<>>
    /\ nodes = <<>>
    /\ edges = <<>>
    /\ attrs = <<>>
    /\ err = "none"
    /\ calls = 0
    /\ subs_id = <<>>
    /\ idx_bound = <<>>
    /\ phase_pc = "idle"

\* the whole pipeline: build, then metric calls of both kinds in any order
Init == InitWith(FramesGrouped(MaxPasses))

Next ==
    \/ GetPassingData
    \/ \E direction \in Directions : NodeStrength(direction, "Intensity")
    \/ \E centrality_name \in CentralityNames : DistanceCentralities(centrality_name, "Distance")

Spec == Init /\ [][Next]_vars

\* the same pipeline on shorter frames
InitCalls == InitWith(FramesGrouped(MaxCallEvents))

SpecCalls == InitCalls /\ [][Next]_vars

\* build and node_strength, on frames in every row order
InitAnyOrder == InitWith(FramesAnyOrder(MaxEvents))

NextStrength ==
    \/ GetPassingData
    \/ \E direction \in Directions : NodeStrength(direction, "Intensity")

SpecStrength == InitAnyOrder /\ [][NextStrength]_vars

\* the build alone, on frames with freely placed passes
InitPos == InitWith(FramesAt(MaxPosEvents))

NextPos == GetPassingData

SpecPos == InitPos /\ [][NextPos]_vars

\* phase_of_play alone, on every list of substitution indices up to MaxIndex
InitPhases ==
    /\ events = <<>>
    /\ pc = "start"
    /\ pass_data = <<>>
    /\ nodes = <<>>
    /\ edges = <<>>
    /\ attrs = <<>>
    /\ err = "none"
    /\ calls = 0
    /\ subs_id \in SubsIds(MaxIndex)
    /\ idx_bound = <<>>
    /\ phase_pc = "call"

NextPhases == CallPhaseOfPlay

SpecPhases == InitPhases /\ [][NextPhases]_vars

-----------------------------------------------------------------------------
(* Properties *)

NodeSet == Range(nodes)

HasAttr(n, a) == a \in DOMAIN attrs[n]

\* attribute a is on no node or on every node
OnAllOrNone(a) == (\E n \in NodeSet : HasAttr(n, a)) => (\A n \in NodeSet : HasAttr(n, a))

\* the number of events from passer p to receiver r in the filtered frame
Occurrences(p, r) ==
    Cardinality({i \in 1..Len(pass_data) :
                    pass_data[i].player_name = p /\ pass_data[i].pass_recipient_name = r})

Participants ==
    {pass_data[i].player_name : i \in 1..Len(pass_data)}
        \cup {pass_data[i].pass_recipient_name : i \in 1..Len(pass_data)}

\* the summed Intensity of a set of edges of G
IntensityOf(S) == SumOver([m \in S |-> edges[m].Intensity], S)

InEdges(n) == {m \in 1..Len(edges) : edges[m].v = n}

OutEdges(n) == {m \in 1..Len(edges) : edges[m].u = n}

Abs(i) == IF i < 0 THEN 0 - i ELSE i

\* C1: on a graph built from a non-empty event set, the Out-Strength values
\* of all nodes add up to the number of events, and so do the In-Strength
\* values (each attribute, once written, is on every node).
C1_StrengthSums ==
    (pc # "start" /\ events # <<>>) =>
        \A a \in {"Out-Strength", "In-Strength"} :
            (\E n \in NodeSet : HasAttr(n, a)) =>
                /\ \A n \in NodeSet : HasAttr(n, a)
                /\ SumOver([n \in NodeSet |-> attrs[n][a]], NodeSet) = Len(events)

C1_Witness ==
    /\ pc = "built"
    /\ Len(events) >= 3
    /\ Len(edges) >= 2
    /\ \E m \in 1..Len(edges) : edges[m].Intensity >= 2
    /\ \A n \in NodeSet : HasAttr(n, "Out-Strength") /\ HasAttr(n, "In-Strength")

C3_OneEdgePerPair ==
    pc # "start" =>
        \A p \in Range(Alphabetical), r \in Range(Alphabetical) :
            LET between == EdgesBetween(edges, p, r)
            IN  IF Occurrences(p, r) = 0
                THEN between = {}
                ELSE /\ Cardinality(between) = 1
                     /\ \A m \in between : edges[m].Intensity = Occurrences(p, r)

\* the same pair first and third, its reverse in between
C3_Witness ==
    /\ pc = "built"
    /\ Len(events) >= 3
    /\ pass_data[1].player_name = pass_data[3].player_name
    /\ pass_data[1].pass_recipient_name = pass_data[3].pass_recipient_name
    /\ pass_data[2].player_name = pass_data[1].pass_recipient_name
    /\ pass_data[2].pass_recipient_name = pass_data[1].player_name
    /\ pass_data[1].player_name # pass_data[1].pass_recipient_name
    /\ Len(edges) = 2

\* C4: a node_strength call with a direction other than "in", "out" or None
\* ends in an error and writes no node attribute.
C4_UnrecognizedDirectionFails ==
    [][NodeStrength("both", "Intensity") => (err' # "none" /\ attrs' = attrs)]_vars

\* C5: a distance_centralities call with an unknown centrality name ends in
\* an error and leaves the nodes, the edges with their attributes and every
\* node attribute as they were.
C5_UnknownKindFails ==
    [][DistanceCentralities("unknown", "Distance") =>
            /\ pc' = "failed"
            /\ err' # "none"
            /\ nodes' = nodes
            /\ edges' = edges
            /\ attrs' = attrs]_vars

C5_Witness ==
    /\ pc = "failed"
    /\ err = "UnboundLocalError: centrality_dict"
    /\ Len(nodes) = 3
    /\ \A n \in NodeSet : HasAttr(n, "In-Harmonic") /\ ~HasAttr(n, "unknown")

\* C6: an empty event collection gives a graph without nodes and edges, and
\* on it every node_strength call (in, out, None) and every
\* distance_centralities call (the three centralities) ends without an error
\* and writes nothing.
C6_EmptyGraphMetricsSucceed ==
    [][(events = <<>> /\ pc = "built") =>
            /\ nodes = <<>>
            /\ edges = <<>>
            /\ ( (\/ \E d \in {"in", "out", "None"} : NodeStrength(d, "Intensity")
                  \/ \E k \in Centralities : DistanceCentralities(k, "Distance"))
                 => (pc' = "built" /\ err' = "none" /\ attrs' = attrs) )]_vars

\* C7: the nodes are exactly the identities that pass or receive in some
\* event, each once, and every node is an endpoint of an edge.
C7_NodesAreParticipants ==
    pc # "start" =>
        /\ NodeSet = Participants
        /\ Cardinality(NodeSet) = Len(nodes)
        /\ DOMAIN attrs = NodeSet
        /\ \A n \in NodeSet : InEdges(n) \cup OutEdges(n) # {}

\* three nodes, one of which only receives
C7_Witness ==
    /\ pc = "built"
    /\ Len(nodes) = 3
    /\ \E n \in NodeSet : OutEdges(n) = {} /\ InEdges(n) # {}

\* C8: In-Strength(v) is the summed Intensity of the edges ending at v,
\* Out-Strength(v) that of the edges starting at v, Strength(v) their sum;
\* each is written on every node.
C8_StrengthValues ==
    pc # "start" =>
        /\ \A a \in {"In-Strength", "Out-Strength", "Strength"} : OnAllOrNone(a)
        /\ \A n \in NodeSet :
            /\ HasAttr(n, "In-Strength") => attrs[n]["In-Strength"] = IntensityOf(InEdges(n))
            /\ HasAttr(n, "Out-Strength") => attrs[n]["Out-Strength"] = IntensityOf(OutEdges(n))
            /\ HasAttr(n, "Strength") =>
                  attrs[n]["Strength"] = IntensityOf(InEdges(n)) + IntensityOf(OutEdges(n))

\* events [(P1->P2) x3, (P2->P1) x1] with both directions computed
C8_Witness ==
    /\ pc = "built"
    /\ Len(events) = 4
    /\ \E p1 \in NodeSet, p2 \in NodeSet :
        /\ p1 # p2
        /\ Occurrences(p1, p2) = 3
        /\ Occurrences(p2, p1) = 1
        /\ HasAttr(p1, "Out-Strength") /\ attrs[p1]["Out-Strength"] = 3
        /\ HasAttr(p1, "In-Strength") /\ attrs[p1]["In-Strength"] = 1
        /\ HasAttr(p2, "Out-Strength") /\ attrs[p2]["Out-Strength"] = 1
        /\ HasAttr(p2, "In-Strength") /\ attrs[p2]["In-Strength"] = 3

\* this step leaves the graph as it is but for the node attribute `name`
OnlyWrites(name) ==
    /\ nodes' = nodes
    /\ edges' = edges
    /\ DOMAIN attrs' = DOMAIN attrs
    /\ \A n \in DOMAIN attrs :
        /\ DOMAIN attrs[n] \subseteq DOMAIN attrs'[n]
        /\ DOMAIN attrs'[n] \subseteq DOMAIN attrs[n] \cup {name}
        /\ \A a \in DOMAIN attrs[n] \ {name} : attrs'[n][a] = attrs[n][a]

\* C9: every metric call changes at most the one node attribute its
\* direction or kind names; nodes, edges (direction, Intensity, Distance),
\* Avg Pos and the attributes of earlier calls stay.
C9_CallsWriteOneAttribute ==
    [][/\ OnlyWrites("In-Strength") \/ ~NodeStrength("in", "Intensity")
       /\ OnlyWrites("Out-Strength") \/ ~NodeStrength("out", "Intensity")
       /\ OnlyWrites("Strength") \/ ~NodeStrength("None", "Intensity")
       /\ \A k \in Centralities : OnlyWrites(k) \/ ~DistanceCentralities(k, "Distance")]_vars

\* Out-Harmonic written after In-Strength on a graph with a one-way edge
C9_Witness ==
    /\ pc = "built"
    /\ \E m \in 1..Len(edges) : EdgesBetween(edges, edges[m].v, edges[m].u) = {}
    /\ \A n \in NodeSet :
        HasAttr(n, "Out-Harmonic") /\ HasAttr(n, "In-Strength") /\ HasAttr(n, "Avg Pos")

\* the distance dict of every node of G over the Distance attribute
Distances == AllPairs(nodes, edges, "Distance")

\* the sum of 1/d(u, v) over the other nodes u that reach v
InHarmonicSum(D, v) ==
    LET from == {u \in NodeSet \ {v} : v \in DOMAIN D[u]}
    IN  RatSum([u \in from |-> Rat(Dec4, D[u][v])], from)

\* the sum of 1/d(v, u) over the other nodes u that v reaches
OutHarmonicSum(D, v) ==
    LET to == {u \in NodeSet \ {v} : u \in DOMAIN D[v]}
    IN  RatSum([u \in to |-> Rat(Dec4, D[v][u])], to)

\* value (in units of 1/Dec4) is the rational r rounded to four decimals
IsRounded(value, r) == value >= 0 /\ 2 * Abs(value * r[2] - r[1] * Dec4) <= r[2]

IsExactly(value, r) == value * r[2] = r[1] * Dec4

HarmonicWritten == \E v \in NodeSet : HasAttr(v, "In-Harmonic") \/ HasAttr(v, "Out-Harmonic")

\* C10 as stated: In-Harmonic(v) is the sum of 1/d(u, v) over the other nodes
\* u that reach v, Out-Harmonic(v) the sum of 1/d(v, u) over the other nodes
\* that v reaches.
C10_HarmonicIsExactSum ==
    (pc # "start" /\ HarmonicWritten) =>
        LET D == Distances
        IN  \A v \in NodeSet :
                /\ HasAttr(v, "In-Harmonic") =>
                      IsExactly(attrs[v]["In-Harmonic"], InHarmonicSum(D, v))
                /\ HasAttr(v, "Out-Harmonic") =>
                      IsExactly(attrs[v]["Out-Harmonic"], OutHarmonicSum(D, v))

\* C10 as amended: In-Harmonic(v) is that sum rounded to four decimals, and
\* Out-Harmonic(v) likewise for the nodes v reaches; both are non-negative,
\* and 0 for a node that no other node reaches (that reaches no other node).
C10_HarmonicIsRoundedSum ==
    (pc # "start" /\ HarmonicWritten) =>
        LET D == Distances
        IN  /\ OnAllOrNone("In-Harmonic") /\ OnAllOrNone("Out-Harmonic")
            /\ \A v \in NodeSet :
                /\ HasAttr(v, "In-Harmonic") =>
                    /\ IsRounded(attrs[v]["In-Harmonic"], InHarmonicSum(D, v))
                    /\ (\A u \in NodeSet \ {v} : v \notin DOMAIN D[u]) => attrs[v]["In-Harmonic"] = 0
                /\ HasAttr(v, "Out-Harmonic") =>
                    /\ IsRounded(attrs[v]["Out-Harmonic"], OutHarmonicSum(D, v))
                    /\ (\A u \in NodeSet \ {v} : u \notin DOMAIN D[v]) => attrs[v]["Out-Harmonic"] = 0

\* both harmonics on a graph where the way round is shorter than the direct
\* edge from u to v, u is reached by nobody and v reaches nobody
C10_Witness ==
    /\ pc = "built"
    /\ \A n \in NodeSet : HasAttr(n, "In-Harmonic") /\ HasAttr(n, "Out-Harmonic")
    /\ \E u \in NodeSet, v \in NodeSet :
        /\ u # v
        /\ EdgesBetween(edges, u, v) # {}
        /\ Distances[u][v] < StepWeight(edges, "Distance", u, v)
        /\ attrs[v]["In-Harmonic"] > 0
        /\ attrs[u]["In-Harmonic"] = 0
        /\ attrs[u]["Out-Harmonic"] > 0
        /\ attrs[v]["Out-Harmonic"] = 0

\* C11: the stored Betweenness of every node lies between 0 and 1 on a graph
\* of two or more nodes, and is 0 on every node of a graph that has a single
\* node or no edge.  Values are in units of 1/Dec4, so 1 is Dec4.
C11_BetweennessInUnitInterval ==
    \A n \in NodeSet :
        HasAttr(n, "Betweenness") =>
            /\ Len(nodes) >= 2 => (0 <= attrs[n]["Betweenness"] /\ attrs[n]["Betweenness"] <= Dec4)
            /\ (Len(nodes) = 1 \/ Len(edges) = 0) => attrs[n]["Betweenness"] = 0

\* Betweenness written on a three-node graph where every shortest path between
\* the two outer nodes runs through the middle one: the upper end of the
\* interval is met on it and the lower end on the others
C11_Witness ==
    /\ pc = "built"
    /\ Len(nodes) = 3
    /\ \E v \in NodeSet :
        /\ HasAttr(v, "Betweenness")
        /\ attrs[v]["Betweenness"] = Dec4
        /\ \A n \in NodeSet \ {v} : attrs[n]["Betweenness"] = 0

\* Betweenness written on a graph whose only node passes to itself
C11_SingleNode ==
    /\ pc = "built"
    /\ Len(nodes) = 1
    /\ HasAttr(nodes[1], "Betweenness")
    /\ attrs[nodes[1]]["Betweenness"] = 0

\* the rows of the filtered frame where n passes, and where n receives
AsPasser(n) == {i \in 1..Len(pass_data) : pass_data[i].player_name = n}

AsReceiver(n) == {i \in 1..Len(pass_data) : pass_data[i].pass_recipient_name = n}

\* how many coordinates contribute to n on each axis
Contributing(n) == Cardinality(AsPasser(n)) + Cardinality(AsReceiver(n))

ContributingSumX(n) ==
    SumOver([i \in AsPasser(n) |-> pass_data[i].x], AsPasser(n))
        + SumOver([i \in AsReceiver(n) |-> pass_data[i].end_x], AsReceiver(n))

ContributingSumY(n) ==
    SumOver([i \in AsPasser(n) |-> pass_data[i].y], AsPasser(n))
        + SumOver([i \in AsReceiver(n) |-> pass_data[i].end_y], AsReceiver(n))

\* value (in units of 1/Dec2) is sum/count rounded to two decimals
IsMeanRounded(value, sum, count) == 2 * Abs(value * count - Dec2 * sum) <= count

\* C12: every node of the built graph has at least one contributing
\* coordinate (the origin of each event it passes in, the destination of each
\* event it receives in), and its Avg Pos is, on each axis, the mean of
\* exactly those coordinates rounded to two decimals.
C12_AvgPosIsRoundedMean ==
    pc = "built" =>
        \A n \in NodeSet :
            /\ Contributing(n) > 0
            /\ HasAttr(n, "Avg Pos")
            /\ IsMeanRounded(attrs[n]["Avg Pos"][1], ContributingSumX(n), Contributing(n))
            /\ IsMeanRounded(attrs[n]["Avg Pos"][2], ContributingSumY(n), Contributing(n))

\* a built graph with a node that both passes and receives, at places that
\* differ, whose mean is not a two-decimal number on either axis
C12_Witness ==
    /\ pc = "built"
    /\ \E n \in NodeSet :
        /\ AsPasser(n) # {} /\ AsReceiver(n) # {}
        /\ \E i \in AsPasser(n), j \in AsReceiver(n) : pass_data[i].x # pass_data[j].end_x
        /\ (Dec2 * ContributingSumX(n)) % Contributing(n) # 0
        /\ (Dec2 * ContributingSumY(n)) % Contributing(n) # 0

\* the indices that end a maximal run of consecutive indices of ids
RunEnds(ids) ==
    {ids[i] : i \in {j \in 1..Len(ids) : j = Len(ids) \/ ids[j + 1] # ids[j] + 1}}

\* the positions where a maximal run of consecutive indices of ids begins
RunStarts(ids) == {j \in 1..Len(ids) : j = 1 \/ ids[j] # ids[j - 1] + 1}

StrictlyIncreasing(s) == \A i \in 1..(Len(s) - 1) : s[i] < s[i + 1]

\* C13: for a strictly increasing list of substitution indices phase_of_play
\* returns a strictly increasing list that holds exactly the last index of
\* every maximal run of consecutive indices: as many values as there are
\* runs, each one of the input indices, and none when there is no
\* substitution.
C13_PhaseBoundsAreRunEnds ==
    (phase_pc = "returned" /\ StrictlyIncreasing(subs_id)) =>
        /\ StrictlyIncreasing(idx_bound)
        /\ Range(idx_bound) = RunEnds(subs_id)
        /\ Len(idx_bound) = Cardinality(RunStarts(subs_id))
        /\ Range(idx_bound) \subseteq Range(subs_id)
        /\ subs_id = <<>> => idx_bound = <<>>

\* a return for substitutions in three runs, the middle one of two or more
\* consecutive indices
C13_Witness ==
    /\ phase_pc = "returned"
    /\ StrictlyIncreasing(subs_id)
    /\ Len(idx_bound) = 3
    /\ \E i \in 2..(Len(subs_id) - 2) :
        /\ subs_id[i + 1] = subs_id[i] + 1
        /\ subs_id[i] # subs_id[i - 1] + 1
        /\ idx_bound[2] > subs_id[i]

\* a return for a match without substitutions
C13_NoSubstitution == phase_pc = "returned" /\ subs_id = <<>> /\ idx_bound = <<>>

====
